---- MODULE Spec2Model ----
(***************************************************************************)
(* Trip service: the Express handlers of the trip lifecycle (create with   *)
(* sequential driver pinging, complete with payment, cancel, get) over the *)
(* SQLite trips table.  Every handler is split at its suspension points    *)
(* (a queued database statement, an awaited HTTP call), so that handlers   *)
(* of different requests interleave exactly where the event loop lets      *)
(* them.                                                                   *)
(*                                                                         *)
(* Units: distance in tenths of a kilometre, money in cents.  A JS number  *)
(* or a REAL column is a tuple: <<n>> is the number n, <<>> is NaN on the  *)
(* JS side and NULL once bound to SQLite or serialised to JSON.            *)
(***************************************************************************)
EXTENDS Integers, Sequences, FiniteSets, TLC

VARIABLES trips, reqs, net, uuid, clock

vars == <<trips, reqs, net, uuid, clock>>

(* ------------------------------ bounds --------------------------------- *)

\* number of HTTP requests the server receives in one run
MaxReqs == 2
\* longest candidate list the driver directory returns
MaxDrivers == 2

Reqs == 1..MaxReqs

\* the drivers the directory knows: as many as its longest list
DriverPool == <<"d1", "d2", "d3", "d4">>
Drivers == { DriverPool[k] : k \in 1..MaxDrivers }

(* ------------------------------ values --------------------------------- *)

\* SQL NULL of a TEXT column / JS null of an identifier
NULL == "NULL"
\* NaN of a JS number, NULL of a REAL column
NaN == <<>>

Num(n) == <<n>>

\* JS truthiness of a request-body string field (undefined and "" are falsy)
FalsyText(s) == s = ""

RiderInputs == {"r1", ""}
PickupInputs == {"A", ""}
DropInputs == {"B", ""}

\* req.body.distance: absent, the number 0, 10 km, 10.5 km, a non-numeric string
DistanceInputs ==
    { [kind |-> "absent", n |-> 0],
      [kind |-> "number", n |-> 0],
      [kind |-> "number", n |-> 100],
      [kind |-> "number", n |-> 105],
      [kind |-> "text",   n |-> 0] }

\* FalsyDistance that lets a request without a distance through
FalsyDistanceZeroOnly(d) == d.kind = "number" /\ d.n = 0

\* !distance
FalsyDistance(d) == d.kind = "absent" \/ (d.kind = "number" /\ d.n = 0)

\* parseFloat(distance)
ParseFloat(d) == IF d.kind = "number" THEN Num(d.n) ELSE NaN

\* (x).toFixed(2) then parseFloat, on a value in tenths of a cent
ToFixed2(milli) == (milli + 5) \div 10

\* baseFare = 2.0, in tenths of a cent
BaseFare == 2000
\* perKmRate = 1.5 per kilometre, in tenths of a cent per tenth of a kilometre
PerKmRate == 150

\* parseFloat((baseFare + (distanceNum * perKmRate)).toFixed(2)), in cents
Fare(distanceNum) ==
    IF distanceNum = NaN THEN NaN
    ELSE Num(ToFixed2(BaseFare + distanceNum[1] * PerKmRate))

(* sequences over S of length at most n that name no element twice *)
SeqsUpTo(S, n) ==
    { q \in UNION { [1..k -> S] : k \in 0..n } :
        \A a, b \in DOMAIN q : a # b => q[a] # q[b] }

(* ------------------------- collaborator replies ------------------------ *)

\* what `await axios.get(.../available)` can produce
\* (a network error, a timeout or a non-2xx status throws; 203 is a 2xx that is
\* not 200; hasDrivers is the truthiness of response.data.drivers)
DirectoryOutcomes ==
    { [threw |-> TRUE, status |-> 0, hasDrivers |-> FALSE, drivers |-> <<>>] }
    \cup { [threw |-> FALSE, status |-> 203, hasDrivers |-> TRUE, drivers |-> <<"d1">>],
           [threw |-> FALSE, status |-> 200, hasDrivers |-> FALSE, drivers |-> <<>>] }
    \cup { [threw |-> FALSE, status |-> 200, hasDrivers |-> TRUE, drivers |-> ds] :
             ds \in SeqsUpTo(Drivers, MaxDrivers) }

\* no reply yet
NoReply == [threw |-> FALSE, status |-> 0]

\* what `await axios.post(.../ping)` can produce
PingOutcomes ==
    { [threw |-> TRUE, status |-> 0, accepted |-> "absent"] }
    \cup { [threw |-> FALSE, status |-> s, accepted |-> a] :
             s \in {200, 202}, a \in {"true", "false", "absent"} }

\* what `await axios.post(.../charge)` can produce
PaymentOutcomes ==
    { [threw |-> TRUE, status |-> 0, data |-> "none"],
      [threw |-> FALSE, status |-> 200, data |-> "SUCCESS"],
      [threw |-> FALSE, status |-> 200, data |-> "FAILED"],
      [threw |-> FALSE, status |-> 201, data |-> "SUCCESS"] }

\* what `await axios.put(.../status)` can produce
StatusOutcomes == { "ok", "threw" }

\* a database statement either runs or calls back with err
DbOutcomes == { "ok", "err" }

\* PingDriverForAcceptance that takes any 2xx reply with accepted true
PingDriverForAcceptanceAnyStatus(o) ==
    IF o.threw THEN FALSE
    ELSE o.accepted = "true"

\* pingDriverForAcceptance: the value the helper returns for a reply
PingDriverForAcceptance(o) ==
    IF o.threw THEN FALSE
    ELSE o.status = 200 /\ o.accepted = "true"

\* PaymentSuccess with the status test dropped
PaymentSuccessAnyStatus(o) ==
    IF o.threw THEN FALSE
    ELSE o.data = "SUCCESS"

\* paymentSuccess after the try/catch around the charge
PaymentSuccess(o) ==
    IF o.threw THEN FALSE
    ELSE o.status = 200 /\ o.data = "SUCCESS"

\* const status = paymentSuccess ? 'COMPLETE' : 'UNPAID'
CompleteStatus(paymentSuccess) == IF paymentSuccess THEN "COMPLETE" ELSE "UNPAID"

(* ------------------------------ the store ------------------------------ *)

\* INSERT INTO trips (...) VALUES (..., 'REQUESTED', now, now)
InsertedTrip(trip_id, rider_id, pickup, drop, now) ==
    [ trip_id |-> trip_id, rider_id |-> rider_id, driver_id |-> NULL,
      pickup_location |-> pickup, drop_location |-> drop,
      status |-> "REQUESTED", fare |-> NaN, distance |-> NaN,
      created_at |-> now, updated_at |-> now ]

\* AssignUpdate that leaves the status as it is
AssignUpdateDriverOnly(store, trip_id, driver_id, now) ==
    IF trip_id \notin DOMAIN store THEN store
    ELSE [store EXCEPT ![trip_id].driver_id = driver_id,
                       ![trip_id].updated_at = now]

\* AssignUpdate that stores the trip as COMPLETE
AssignUpdateAsComplete(store, trip_id, driver_id, now) ==
    IF trip_id \notin DOMAIN store THEN store
    ELSE [store EXCEPT ![trip_id].driver_id = driver_id,
                       ![trip_id].status = "COMPLETE",
                       ![trip_id].updated_at = now]

\* UPDATE trips SET driver_id = ?, status='ACCEPTED', updated_at = ? WHERE trip_id = ?
AssignUpdate(store, trip_id, driver_id, now) ==
    IF trip_id \notin DOMAIN store THEN store
    ELSE [store EXCEPT ![trip_id].driver_id = driver_id,
                       ![trip_id].status = "ACCEPTED",
                       ![trip_id].updated_at = now]

\* CompleteUpdateRow that writes only a trip that is still ACCEPTED
CompleteUpdateRowGuarded(store, trip_id, status, fare, distanceNum, now) ==
    IF trip_id \notin DOMAIN store \/ store[trip_id].status # "ACCEPTED" THEN store
    ELSE [store EXCEPT ![trip_id].status = status,
                       ![trip_id].fare = fare,
                       ![trip_id].distance = distanceNum,
                       ![trip_id].updated_at = now]

\* UPDATE trips SET status = ?, fare = ?, distance = ?, updated_at = ? WHERE trip_id = ?
CompleteUpdateRow(store, trip_id, status, fare, distanceNum, now) ==
    IF trip_id \notin DOMAIN store THEN store
    ELSE [store EXCEPT ![trip_id].status = status,
                       ![trip_id].fare = fare,
                       ![trip_id].distance = distanceNum,
                       ![trip_id].updated_at = now]

\* CancelUpdateRow that cancels only a trip that is still REQUESTED
CancelUpdateRowRequestedOnly(store, trip_id, now) ==
    IF trip_id \notin DOMAIN store \/ store[trip_id].status # "REQUESTED" THEN store
    ELSE [store EXCEPT ![trip_id].status = "CANCELLED",
                       ![trip_id].updated_at = now]

\* CancelUpdateRow that also releases the driver
CancelUpdateRowClearsDriver(store, trip_id, now) ==
    IF trip_id \notin DOMAIN store THEN store
    ELSE [store EXCEPT ![trip_id].status = "CANCELLED",
                       ![trip_id].driver_id = NULL,
                       ![trip_id].updated_at = now]

\* UPDATE trips SET status = 'CANCELLED', updated_at = ? WHERE trip_id = ?
CancelUpdateRow(store, trip_id, now) ==
    IF trip_id \notin DOMAIN store THEN store
    ELSE [store EXCEPT ![trip_id].status = "CANCELLED",
                       ![trip_id].updated_at = now]

(* ------------------------------ requests ------------------------------- *)

NoResp == [code |-> 0]

Idle == [kind |-> "none", pc |-> "idle", resp |-> NoResp]

ErrorResp(code, msg) == [code |-> code, body |-> [error |-> msg]]

\* a request slot is taken in order, so that slots are not interchangeable
CanStart(r) == reqs[r].kind = "none" /\ \A p \in 1..(r - 1) : reqs[p].kind # "none"

\* trips left in trips.db by an earlier run of the server
EarlierTrips ==
    DOMAIN trips \ { reqs[r].trip_id : r \in { q \in Reqs : reqs[q].kind = "create" } }

\* trip ids a client can know: of an earlier run, sent to a driver in a ping, or
\* returned by Create
Disclosed ==
    EarlierTrips \cup
    { reqs[r].trip_id : r \in { q \in Reqs : /\ reqs[q].kind = "create"
                                             /\ \/ reqs[q].sentTo # <<>>
                                                \/ reqs[q].resp.code = 201 } }

\* trip ids a request can carry: a disclosed one, or one that names no trip
ClientTripIds == Disclosed \cup {0}

\* an outbound HTTP call that has been sent and has not resolved
Call(r, svc, driver_id, trip_id) ==
    [req |-> r, svc |-> svc, driver_id |-> driver_id, trip_id |-> trip_id]

\* The server starts on ./trips.db, which outlives the process (CREATE TABLE IF
\* NOT EXISTS): the table is empty, or holds a trip an earlier run created and
\* left REQUESTED (no driver accepted), or one it left ACCEPTED by driver d1.
\* The earlier run drew uuid 1 and read the clock at 0 and 1.
InitialStores ==
    { << >>,
      1 :> InsertedTrip(1, "r1", "A", "B", 0),
      1 :> [InsertedTrip(1, "r1", "A", "B", 0)
              EXCEPT !.driver_id = "d1", !.status = "ACCEPTED", !.updated_at = 1] }

Init ==
    /\ trips \in InitialStores
    /\ reqs = [r \in Reqs |-> Idle]
    /\ net = {}
    /\ uuid = Cardinality(DOMAIN trips)
    /\ clock = 2

(* ------------------------------- Create -------------------------------- *)

\* AssignedResp that reports the status stored by the assignment
AssignedRespAsStored(trip_id, driver_id) ==
    [code |-> 201,
     body |-> [trip_id |-> trip_id, status |-> "ACCEPTED", driver_id |-> driver_id,
               message |-> "Trip created and driver assigned"]]

\* the 201 bodies of POST /v1/trips
AssignedResp(trip_id, driver_id) ==
    [code |-> 201,
     body |-> [trip_id |-> trip_id, status |-> "REQUESTED", driver_id |-> driver_id,
               message |-> "Trip created and driver assigned"]]

\* UnassignedResp that reports the failure as a server error
UnassignedRespAsError(trip_id, msg) == ErrorResp(500, msg)

UnassignedResp(trip_id, msg) ==
    [code |-> 201,
     body |-> [trip_id |-> trip_id, status |-> "REQUESTED", message |-> msg]]

CreateReq(pc, trip_id, rider_id, pickup, drop, now, resp) ==
    [kind |-> "create", pc |-> pc, trip_id |-> trip_id, rider_id |-> rider_id,
     pickup |-> pickup, drop |-> drop, now |-> now,
     response |-> NoReply, pingResponse |-> NoReply,
     drivers |-> <<>>, i |-> 0, sentTo |-> <<>>, results |-> <<>>,
     assignedDriverId |-> NULL, update |-> "none", updated_at |-> 0,
     resp |-> resp]

\* LoopPings that pings every remaining driver at once
LoopPingsFanOut(r, drivers, i, trip_id) ==
    { Call(r, "ping", drivers[j], trip_id) : j \in i..Len(drivers) }

\* the calls one iteration of `for (const driver of drivers)` sends: one ping
LoopPings(r, drivers, i, trip_id) == { Call(r, "ping", drivers[i], trip_id) }

\* the drivers those calls go to, in the order they are sent
LoopTargets(drivers, i) == << drivers[i] >>

\* HasCandidates with the status test dropped
HasCandidatesAnyStatus(o) == o.hasDrivers /\ Len(o.drivers) > 0

\* response.status === 200 && response.data.drivers, then drivers.length > 0
HasCandidates(o) == o.status = 200 /\ o.hasDrivers /\ Len(o.drivers) > 0

\* LoopStep without the break: the loop runs on after an acceptance
LoopStepNoBreak(accepted, i, n) ==
    IF i < n THEN "next"
    ELSE IF accepted THEN "break"
    ELSE "exhausted"

\* LoopStep that gives up at the first driver that does not accept
LoopStepGiveUp(accepted, i, n) ==
    IF accepted THEN "break" ELSE "exhausted"

\* where the loop goes once the ping of driver i of n has returned `accepted`:
\* break on acceptance, the next driver otherwise, the end of the list after the last
LoopStep(accepted, i, n) ==
    IF accepted THEN "break"
    ELSE IF i < n THEN "next"
    ELSE "exhausted"

\* POST /v1/trips up to the queued INSERT
CreateStart(r, rider_id, pickup, drop) ==
    /\ CanStart(r)
    /\ IF FalsyText(rider_id) \/ FalsyText(pickup) \/ FalsyText(drop)
       THEN /\ reqs' = [reqs EXCEPT ![r] =
                  CreateReq("done", 0, rider_id, pickup, drop, 0,
                            ErrorResp(400, "Missing required fields: rider_id, pickup, drop"))]
            /\ UNCHANGED <<uuid, clock>>
       ELSE /\ reqs' = [reqs EXCEPT ![r] =
                  CreateReq("insert", uuid + 1, rider_id, pickup, drop, clock, NoResp)]
            /\ uuid' = uuid + 1
            /\ clock' = clock + 1
    /\ UNCHANGED <<trips, net>>

\* CreateInsert that goes on to the directory fetch when the INSERT failed
CreateInsertIgnoringError(r, db) ==
    LET q == reqs[r] IN
    /\ q.kind = "create" /\ q.pc = "insert"
    /\ IF db = "err"
       THEN /\ reqs' = [reqs EXCEPT ![r].pc = "fetch"]
            /\ net' = net \cup { Call(r, "available", NULL, q.trip_id) }
            /\ UNCHANGED trips
       ELSE /\ trips' = trips @@ (q.trip_id :>
                  InsertedTrip(q.trip_id, q.rider_id, q.pickup, q.drop, q.now))
            /\ reqs' = [reqs EXCEPT ![r].pc = "fetch"]
            /\ net' = net \cup { Call(r, "available", NULL, q.trip_id) }
    /\ UNCHANGED <<uuid, clock>>

\* the INSERT runs and its callback starts the directory fetch
CreateInsert(r, db) ==
    LET q == reqs[r] IN
    /\ q.kind = "create" /\ q.pc = "insert"
    /\ IF db = "err"
       THEN /\ reqs' = [reqs EXCEPT ![r].pc = "done",
                                    ![r].resp = ErrorResp(500, "insert failed")]
            /\ UNCHANGED <<trips, net>>
       ELSE /\ trips' = trips @@ (q.trip_id :>
                  InsertedTrip(q.trip_id, q.rider_id, q.pickup, q.drop, q.now))
            /\ reqs' = [reqs EXCEPT ![r].pc = "fetch"]
            /\ net' = net \cup { Call(r, "available", NULL, q.trip_id) }
    /\ UNCHANGED <<uuid, clock>>

\* the directory fetch resolves; a non-empty list starts the ping loop
CreateFetched(r, o) ==
    LET q == reqs[r]
        c == Call(r, "available", NULL, q.trip_id) IN
    /\ q.kind = "create" /\ q.pc = "fetch" /\ c \in net
    /\ IF o.threw
       THEN /\ reqs' = [reqs EXCEPT ![r].pc = "done",
                                    ![r].response = o,
                  ![r].resp = UnassignedResp(q.trip_id,
                                 "Trip created but could not reach driver service")]
            /\ net' = net \ {c}
       ELSE IF HasCandidates(o)
       THEN /\ reqs' = [reqs EXCEPT ![r].pc = "ping",
                                    ![r].response = o,
                                    ![r].drivers = o.drivers,
                                    ![r].i = 1,
                                    ![r].sentTo = LoopTargets(o.drivers, 1)]
            /\ net' = (net \ {c}) \cup LoopPings(r, o.drivers, 1, q.trip_id)
       ELSE /\ reqs' = [reqs EXCEPT ![r].pc = "done",
                                    ![r].response = o,
                  ![r].resp = UnassignedResp(q.trip_id,
                                 "Trip created but no drivers available")]
            /\ net' = net \ {c}
    /\ UNCHANGED <<trips, uuid, clock>>

\* the awaited ping of driver i resolves: break on acceptance, else the next driver
CreatePinged(r, o) ==
    LET q == reqs[r]
        c == Call(r, "ping", q.drivers[q.i], q.trip_id)
        accepted == PingDriverForAcceptance(o)
        step == LoopStep(accepted, q.i, Len(q.drivers)) IN
    /\ q.kind = "create" /\ q.pc = "ping" /\ c \in net
    /\ IF step = "break"
       THEN \* assignedDriverId is set, the UPDATE is queued without a callback,
            \* and the response is sent in the same turn
            /\ reqs' = [reqs EXCEPT ![r].pc = "done",
                                    ![r].pingResponse = o,
                                    ![r].results = Append(q.results, accepted),
                                    ![r].assignedDriverId = q.drivers[q.i],
                                    ![r].update = "queued",
                                    ![r].updated_at = clock,
                                    ![r].resp = AssignedResp(q.trip_id, q.drivers[q.i])]
            /\ net' = net \ {c}
            /\ clock' = clock + 1
       ELSE IF step = "next"
       THEN /\ reqs' = [reqs EXCEPT ![r].pingResponse = o,
                                    ![r].results = Append(q.results, accepted),
                                    ![r].i = q.i + 1,
                                    ![r].sentTo = q.sentTo \o LoopTargets(q.drivers, q.i + 1)]
            /\ net' = (net \ {c}) \cup LoopPings(r, q.drivers, q.i + 1, q.trip_id)
            /\ UNCHANGED clock
       ELSE /\ reqs' = [reqs EXCEPT ![r].pc = "done",
                                    ![r].pingResponse = o,
                                    ![r].results = Append(q.results, accepted),
                  ![r].resp = UnassignedResp(q.trip_id,
                                 "Trip created but no drivers accepted")]
            /\ net' = net \ {c}
            /\ UNCHANGED clock
    /\ UNCHANGED <<trips, uuid>>

\* the queued assignment UPDATE runs; nothing observes its error
CreateUpdate(r, db) ==
    LET q == reqs[r] IN
    /\ q.kind = "create" /\ q.update = "queued"
    /\ IF db = "err"
       THEN /\ reqs' = [reqs EXCEPT ![r].update = "err", ![r].updated_at = 0]
            /\ UNCHANGED trips
       ELSE /\ reqs' = [reqs EXCEPT ![r].update = "ok", ![r].updated_at = 0]
            /\ trips' = AssignUpdate(trips, q.trip_id, q.assignedDriverId, q.updated_at)
    /\ UNCHANGED <<net, uuid, clock>>

(* ------------------------------ Complete ------------------------------- *)

\* (the handler's locals live until its response is sent: a request that is done
\* keeps its params, its body and its response only)
CompleteReq(pc, trip_id, distance, distanceNum, resp) ==
    [kind |-> "complete", pc |-> pc, trip_id |-> trip_id,
     distance |-> distance, distanceNum |-> distanceNum,
     driver_id |-> NULL, fare |-> NaN, idempotencyKey |-> 0,
     response |-> NoReply, paymentSuccess |-> FALSE, status |-> "none", updated_at |-> 0,
     resp |-> resp]

\* the 200 body of PUT /v1/trips/:trip_id/complete
CompleteResp(trip_id, status, fare, distanceNum, paymentSuccess) ==
    [code |-> 200,
     body |-> [trip_id |-> trip_id, status |-> status, fare |-> fare,
               distance |-> distanceNum,
               payment_status |-> IF paymentSuccess THEN "SUCCESS" ELSE "FAILED",
               message |-> IF paymentSuccess THEN "Trip completed successfully"
                           ELSE "Trip completed but payment failed"]]

\* PUT /v1/trips/:trip_id/complete: the distance check, the SELECT and its
\* callback, which computes the fare and sends the charge.  Nothing the handler
\* does before the SELECT runs touches shared state, so the request is taken
\* at the moment its SELECT runs.
CompleteSelect(r, trip_id, distance, db) ==
    LET distanceNum == ParseFloat(distance) IN
    /\ CanStart(r)
    /\ IF FalsyDistance(distance)
       THEN /\ reqs' = [reqs EXCEPT ![r] =
                  CompleteReq("done", trip_id, distance, NaN,
                              ErrorResp(400, "Missing required field: distance"))]
            /\ UNCHANGED <<net, uuid>>
       ELSE IF db = "err"
       THEN /\ reqs' = [reqs EXCEPT ![r] =
                  CompleteReq("done", trip_id, distance, NaN,
                              ErrorResp(500, "select failed"))]
            /\ UNCHANGED <<net, uuid>>
       ELSE IF trip_id \notin DOMAIN trips
       THEN /\ reqs' = [reqs EXCEPT ![r] =
                  CompleteReq("done", trip_id, distance, NaN,
                              ErrorResp(404, "Trip not found"))]
            /\ UNCHANGED <<net, uuid>>
       ELSE /\ reqs' = [reqs EXCEPT ![r] =
                  [CompleteReq("pay", trip_id, distance, distanceNum, NoResp)
                     EXCEPT !.driver_id = trips[trip_id].driver_id,
                            !.fare = Fare(distanceNum),
                            !.idempotencyKey = uuid + 1]]
            /\ uuid' = uuid + 1
            /\ net' = net \cup { Call(r, "charge", NULL, trip_id) }
    /\ UNCHANGED <<trips, clock>>

\* CompletePaid that sends the charge again when it threw
CompletePaidRetry(r, o) ==
    LET q == reqs[r]
        c == Call(r, "charge", NULL, q.trip_id)
        paymentSuccess == PaymentSuccess(o) IN
    /\ q.kind = "complete" /\ q.pc = "pay" /\ c \in net
    /\ IF o.threw
       THEN /\ reqs' = [reqs EXCEPT ![r].response = o]
            /\ UNCHANGED <<net, clock>>
       ELSE /\ reqs' = [reqs EXCEPT ![r].pc = "update",
                                    ![r].response = o,
                                    ![r].paymentSuccess = paymentSuccess,
                                    ![r].status = CompleteStatus(paymentSuccess),
                                    ![r].updated_at = clock]
            /\ net' = net \ {c}
            /\ clock' = clock + 1
    /\ UNCHANGED <<trips, uuid>>

\* the awaited charge resolves; the status is chosen and the UPDATE queued
CompletePaid(r, o) ==
    LET q == reqs[r]
        c == Call(r, "charge", NULL, q.trip_id)
        paymentSuccess == PaymentSuccess(o) IN
    /\ q.kind = "complete" /\ q.pc = "pay" /\ c \in net
    /\ reqs' = [reqs EXCEPT ![r].pc = "update",
                            ![r].response = o,
                            ![r].paymentSuccess = paymentSuccess,
                            ![r].status = CompleteStatus(paymentSuccess),
                            ![r].updated_at = clock]
    /\ net' = net \ {c}
    /\ clock' = clock + 1
    /\ UNCHANGED <<trips, uuid>>

\* the UPDATE runs; its callback reactivates the driver read at the start, if any
CompleteUpdate(r, db) ==
    LET q == reqs[r] IN
    /\ q.kind = "complete" /\ q.pc = "update"
    /\ IF db = "err"
       THEN /\ reqs' = [reqs EXCEPT ![r] =
                  CompleteReq("done", q.trip_id, q.distance, NaN, ErrorResp(500, "update failed"))]
            /\ UNCHANGED <<trips, net>>
       ELSE /\ trips' = CompleteUpdateRow(trips, q.trip_id, q.status, q.fare,
                                          q.distanceNum, q.updated_at)
            /\ IF q.driver_id # NULL
               THEN /\ reqs' = [reqs EXCEPT ![r].pc = "reactivate"]
                    /\ net' = net \cup { Call(r, "status", q.driver_id, q.trip_id) }
               ELSE /\ reqs' = [reqs EXCEPT ![r] =
                          CompleteReq("done", q.trip_id, q.distance, NaN,
                                      CompleteResp(q.trip_id, q.status, q.fare,
                                                   q.distanceNum, q.paymentSuccess))]
                    /\ UNCHANGED net
    /\ UNCHANGED <<uuid, clock>>

\* CompleteReactivated without the catch: a throw ends the callback unanswered
CompleteReactivatedUncaught(r, o) ==
    LET q == reqs[r]
        c == Call(r, "status", q.driver_id, q.trip_id) IN
    /\ q.kind = "complete" /\ q.pc = "reactivate" /\ c \in net
    /\ o \in StatusOutcomes
    /\ reqs' = [reqs EXCEPT ![r] =
          CompleteReq("done", q.trip_id, q.distance, NaN,
                      IF o = "threw" THEN NoResp
                      ELSE CompleteResp(q.trip_id, q.status, q.fare,
                                        q.distanceNum, q.paymentSuccess))]
    /\ net' = net \ {c}
    /\ UNCHANGED <<trips, uuid, clock>>

\* the awaited driver-status call resolves or throws; the response follows either way
CompleteReactivated(r, o) ==
    LET q == reqs[r]
        c == Call(r, "status", q.driver_id, q.trip_id) IN
    /\ q.kind = "complete" /\ q.pc = "reactivate" /\ c \in net
    /\ o \in StatusOutcomes
    /\ reqs' = [reqs EXCEPT ![r] =
          CompleteReq("done", q.trip_id, q.distance, NaN,
                      CompleteResp(q.trip_id, q.status, q.fare,
                                   q.distanceNum, q.paymentSuccess))]
    /\ net' = net \ {c}
    /\ UNCHANGED <<trips, uuid, clock>>

(* ------------------------------- Cancel -------------------------------- *)

CancelReq(pc, trip_id, resp) ==
    [kind |-> "cancel", pc |-> pc, trip_id |-> trip_id, driver_id |-> NULL,
     updated_at |-> 0, resp |-> resp]

\* the 200 body of GET /v1/trips/:trip_id/cancel
CancelResp(trip_id) ==
    [code |-> 200,
     body |-> [trip_id |-> trip_id, status |-> "CANCELLED",
               message |-> "Trip cancelled successfully"]]

\* GET /v1/trips/:trip_id/cancel: the SELECT and its callback, which queues
\* the UPDATE (the request is taken at the moment its SELECT runs)
CancelSelect(r, trip_id, db) ==
    /\ CanStart(r)
    /\ IF db = "err"
       THEN /\ reqs' = [reqs EXCEPT ![r] =
                  CancelReq("done", trip_id, ErrorResp(500, "select failed"))]
            /\ UNCHANGED clock
       ELSE IF trip_id \notin DOMAIN trips
       THEN /\ reqs' = [reqs EXCEPT ![r] =
                  CancelReq("done", trip_id, ErrorResp(404, "Trip not found"))]
            /\ UNCHANGED clock
       ELSE /\ reqs' = [reqs EXCEPT ![r] =
                  [CancelReq("update", trip_id, NoResp)
                     EXCEPT !.driver_id = trips[trip_id].driver_id,
                            !.updated_at = clock]]
            /\ clock' = clock + 1
    /\ UNCHANGED <<trips, net, uuid>>

\* CancelUpdate with the driver-status call of the callback enabled
CancelUpdateReactivates(r, db) ==
    LET q == reqs[r] IN
    /\ q.kind = "cancel" /\ q.pc = "update"
    /\ IF db = "err"
       THEN /\ reqs' = [reqs EXCEPT ![r] =
                  CancelReq("done", q.trip_id, ErrorResp(500, "update failed"))]
            /\ UNCHANGED <<trips, net>>
       ELSE /\ trips' = CancelUpdateRow(trips, q.trip_id, q.updated_at)
            /\ reqs' = [reqs EXCEPT ![r] =
                  CancelReq("done", q.trip_id, CancelResp(q.trip_id))]
            /\ net' = IF q.driver_id # NULL
                      THEN net \cup { Call(r, "status", q.driver_id, q.trip_id) }
                      ELSE net
    /\ UNCHANGED <<uuid, clock>>

\* the UPDATE runs; its callback answers
CancelUpdate(r, db) ==
    LET q == reqs[r] IN
    /\ q.kind = "cancel" /\ q.pc = "update"
    /\ IF db = "err"
       THEN /\ reqs' = [reqs EXCEPT ![r] =
                  CancelReq("done", q.trip_id, ErrorResp(500, "update failed"))]
            /\ UNCHANGED trips
       ELSE /\ trips' = CancelUpdateRow(trips, q.trip_id, q.updated_at)
            /\ reqs' = [reqs EXCEPT ![r] =
                  CancelReq("done", q.trip_id, CancelResp(q.trip_id))]
    /\ UNCHANGED <<net, uuid, clock>>

(* --------------------------------- Get --------------------------------- *)

GetReq(pc, trip_id, resp) ==
    [kind |-> "get", pc |-> pc, trip_id |-> trip_id, resp |-> resp]

\* GetResp that leaves the driver out
GetRespNoDriver(trip) ==
    [code |-> 200, body |-> [trip EXCEPT !.driver_id = NULL]]

\* res.json({...}) of GET /v1/trips/:trip_id: the row, field by field
GetResp(trip) ==
    [code |-> 200,
     body |-> [trip_id |-> trip.trip_id, rider_id |-> trip.rider_id,
               driver_id |-> trip.driver_id,
               pickup_location |-> trip.pickup_location,
               drop_location |-> trip.drop_location,
               status |-> trip.status, fare |-> trip.fare,
               distance |-> trip.distance,
               created_at |-> trip.created_at, updated_at |-> trip.updated_at]]

\* GET /v1/trips/:trip_id: the SELECT and its callback, which answers
GetSelect(r, trip_id, db) ==
    /\ CanStart(r)
    /\ reqs' = [reqs EXCEPT ![r] =
          GetReq("done", trip_id,
                 IF db = "err" THEN ErrorResp(500, "select failed")
                 ELSE IF trip_id \notin DOMAIN trips
                 THEN ErrorResp(404, "Trip not found")
                 ELSE GetResp(trips[trip_id]))]
    /\ UNCHANGED <<trips, net, uuid, clock>>

(* ---------------------------- specification ---------------------------- *)

Next ==
    \/ \E r \in Reqs, rider_id \in RiderInputs, pickup \in PickupInputs,
          drop \in DropInputs : CreateStart(r, rider_id, pickup, drop)
    \/ \E r \in Reqs, db \in DbOutcomes : CreateInsert(r, db)
    \/ \E r \in Reqs, o \in DirectoryOutcomes : CreateFetched(r, o)
    \/ \E r \in Reqs, o \in PingOutcomes : CreatePinged(r, o)
    \/ \E r \in Reqs, db \in DbOutcomes : CreateUpdate(r, db)
    \/ \E r \in Reqs, t \in ClientTripIds, d \in DistanceInputs, db \in DbOutcomes :
          CompleteSelect(r, t, d, db)
    \/ \E r \in Reqs, o \in PaymentOutcomes : CompletePaid(r, o)
    \/ \E r \in Reqs, db \in DbOutcomes : CompleteUpdate(r, db)
    \/ \E r \in Reqs, o \in StatusOutcomes : CompleteReactivated(r, o)
    \/ \E r \in Reqs, t \in ClientTripIds, db \in DbOutcomes : CancelSelect(r, t, db)
    \/ \E r \in Reqs, db \in DbOutcomes : CancelUpdate(r, db)
    \/ \E r \in Reqs, t \in ClientTripIds, db \in DbOutcomes : GetSelect(r, t, db)

Spec == Init /\ [][Next]_vars

\* Every statement handed to sqlite runs and calls back, and every outbound call
\* resolves or throws: each axios call carries a timeout (5000, timeoutMs + 500,
\* 10000, 5000 ms).  Nothing is assumed about when clients send requests.
Fairness ==
    \A r \in Reqs :
      /\ WF_vars(\E db \in DbOutcomes : CreateInsert(r, db))
      /\ WF_vars(\E o \in DirectoryOutcomes : CreateFetched(r, o))
      /\ WF_vars(\E o \in PingOutcomes : CreatePinged(r, o))
      /\ WF_vars(\E db \in DbOutcomes : CreateUpdate(r, db))
      /\ WF_vars(\E o \in PaymentOutcomes : CompletePaid(r, o))
      /\ WF_vars(\E db \in DbOutcomes : CompleteUpdate(r, db))
      /\ WF_vars(\E o \in StatusOutcomes : CompleteReactivated(r, o))
      /\ WF_vars(\E db \in DbOutcomes : CancelUpdate(r, db))

FairSpec == Spec /\ Fairness

(* ------------------------------- claims -------------------------------- *)

CreateRequests == { r \in Reqs : reqs[r].kind = "create" }

\* request r has run an UPDATE of a Complete or a Cancel on trip t
HasWritten(r, t) ==
    /\ reqs[r].kind \in {"complete", "cancel"}
    /\ reqs[r].trip_id = t
    /\ (reqs[r].pc = "reactivate" \/ reqs[r].resp.code = 200)

\* no Complete and no Cancel has written trip t
Untouched(t) == \A r \in Reqs : ~HasWritten(r, t)

\* the row of r's trip is still the row r inserted
RowAsInserted(r) ==
    LET q == reqs[r] IN
    /\ q.trip_id \in DOMAIN trips
    /\ trips[q.trip_id] = InsertedTrip(q.trip_id, q.rider_id, q.pickup, q.drop, q.now)

\* C1: first match wins.  In every state of every Create: the pings sent so far
\* went to the first candidates of the directory's list, in list order; no ping
\* but the last has been accepted (nothing is pinged after an acceptance); and
\* once ping k is accepted the handler is done with exactly k pings sent, candidate
\* k as assignedDriverId, in the response and in the queued UPDATE, which, when it
\* has run, has stored candidate k as the trip's driver.
C1_FirstMatchWins ==
    \A r \in CreateRequests :
      LET q == reqs[r]
          k == Len(q.results) IN
      /\ Len(q.sentTo) <= Len(q.drivers)
      /\ q.sentTo = SubSeq(q.drivers, 1, Len(q.sentTo))
      /\ Len(q.sentTo) = IF q.pc = "ping" THEN k + 1 ELSE k
      /\ \A j \in 1..(k - 1) : ~q.results[j]
      /\ (k > 0 /\ q.results[k]) =>
            /\ q.pc = "done"
            /\ q.assignedDriverId = q.drivers[k]
            /\ q.resp = AssignedResp(q.trip_id, q.drivers[k])
            /\ q.update # "none"
            /\ q.update = "ok" => trips[q.trip_id].driver_id = q.drivers[k]
      /\ q.assignedDriverId # NULL => (k > 0 /\ q.results[k])

\* the directory listed d1 then d2, d1 did not accept, d2 did, and d2 is stored
C1_Witness ==
    \E r \in CreateRequests :
      /\ reqs[r].drivers = <<"d1", "d2">>
      /\ reqs[r].results = <<FALSE, TRUE>>
      /\ reqs[r].sentTo = <<"d1", "d2">>
      /\ reqs[r].update = "ok"
      /\ trips[reqs[r].trip_id].driver_id = "d2"

\* C2: exhausted negotiation.  A Create that is done with N >= 1 candidates none of
\* whose pings was accepted has sent exactly N pings, one to each candidate in
\* order, answers "no drivers accepted" with no driver_id, queues no UPDATE, and
\* leaves its trip without a driver; the row is the inserted row (REQUESTED, NULL
\* driver) as long as no Complete or Cancel has written it.
C2_ExhaustedNegotiation ==
    \A r \in CreateRequests :
      LET q == reqs[r] IN
      (/\ q.pc = "done"
       /\ q.drivers # <<>>
       /\ \A j \in 1..Len(q.results) : ~q.results[j]) =>
         /\ Len(q.results) = Len(q.drivers)
         /\ q.sentTo = q.drivers
         /\ q.assignedDriverId = NULL
         /\ q.update = "none"
         /\ q.resp = UnassignedResp(q.trip_id, "Trip created but no drivers accepted")
         /\ trips[q.trip_id].driver_id = NULL
         /\ Untouched(q.trip_id) =>
              (RowAsInserted(r) /\ trips[q.trip_id].status = "REQUESTED")

\* two candidates, both pinged, neither accepted, the trip still as inserted
C2_Witness ==
    \E r \in CreateRequests :
      /\ reqs[r].pc = "done"
      /\ Len(reqs[r].drivers) = 2
      /\ reqs[r].results = <<FALSE, FALSE>>
      /\ trips[reqs[r].trip_id].status = "REQUESTED"
      /\ trips[reqs[r].trip_id].driver_id = NULL

\* a directory reply that yields no candidates
NoCandidates(o) ==
    o.threw \/ o.status # 200 \/ ~o.hasDrivers \/ o.drivers = <<>>

\* C3: Create degrades.  Once the directory fetch has failed, or has returned a
\* status other than 200, a body without a drivers list or an empty list, the
\* Create is done with no ping sent, a 201 response of status REQUESTED without a
\* driver_id, no UPDATE queued, and its trip without a driver; the row is the
\* inserted row (REQUESTED, NULL driver) as long as no Complete or Cancel has
\* written it.
C3_CreateDegrades ==
    \A r \in CreateRequests :
      LET q == reqs[r] IN
      (q.response # NoReply /\ NoCandidates(q.response)) =>
         /\ q.pc = "done"
         /\ q.sentTo = <<>> /\ q.results = <<>>
         /\ \A c \in net : c.req # r
         /\ q.resp.code = 201
         /\ q.resp \in
              { UnassignedResp(q.trip_id, "Trip created but could not reach driver service"),
                UnassignedResp(q.trip_id, "Trip created but no drivers available") }
         /\ q.update = "none"
         /\ trips[q.trip_id].driver_id = NULL
         /\ Untouched(q.trip_id) =>
              (RowAsInserted(r) /\ trips[q.trip_id].status = "REQUESTED")

\* a Create answered 201 after a 203 reply that carried a list, no ping sent
C3_Witness ==
    \E r \in CreateRequests :
      /\ reqs[r].response # NoReply
      /\ reqs[r].response.status = 203
      /\ reqs[r].response.drivers # <<>>
      /\ reqs[r].resp.code = 201
      /\ reqs[r].sentTo = <<>>
      /\ trips[reqs[r].trip_id].status = "REQUESTED"

\* C4: whenever Create has answered "Trip created and driver assigned" for driver
\* d and no Complete or Cancel has written the trip, the stored trip has
\* driver_id d and status ACCEPTED.
C4_AssignmentStoredWhenAnswered ==
    \A r \in CreateRequests :
      LET q == reqs[r] IN
      (/\ q.resp.code = 201
       /\ q.resp = AssignedResp(q.trip_id, q.assignedDriverId)
       /\ Untouched(q.trip_id)) =>
         /\ trips[q.trip_id].driver_id = q.assignedDriverId
         /\ trips[q.trip_id].status = "ACCEPTED"

\* the one reply of the payment service that counts as success
ChargeSucceeded(o) == o = [threw |-> FALSE, status |-> 200, data |-> "SUCCESS"]

\* request r, a Complete, runs its UPDATE in this step and the UPDATE succeeds
CompleteWrites(r) ==
    /\ reqs[r].kind = "complete" /\ reqs[r].pc = "update"
    /\ reqs'[r].pc # "update" /\ reqs'[r].resp.code # 500

\* request r, a Complete, sends its 200 response in this step
CompleteAnswers(r) ==
    /\ reqs[r].kind = "complete" /\ reqs[r].pc # "done"
    /\ reqs'[r].pc = "done" /\ reqs'[r].resp.code = 200

\* C5: Complete's status follows the payment outcome.  The UPDATE of a Complete
\* writes COMPLETE if the charge returned 200 with status SUCCESS and UNPAID for
\* every other reply and for a throw; the same UPDATE writes the fare of the
\* distance and the distance, whatever the payment outcome; and the 200 response
\* carries payment_status SUCCESS exactly when COMPLETE was written, FAILED
\* otherwise, with the status, fare and distance written.
C5_StatusFollowsPayment ==
    [][\A r \in Reqs :
         LET q == reqs[r]
             t == q.trip_id
             written == IF ChargeSucceeded(q.response) THEN "COMPLETE" ELSE "UNPAID" IN
         /\ CompleteWrites(r) =>
              /\ trips'[t].status = written
              /\ trips'[t].fare = Fare(q.distanceNum)
              /\ trips'[t].distance = q.distanceNum
         /\ CompleteAnswers(r) =>
              /\ reqs'[r].resp.body.status = written
              /\ reqs'[r].resp.body.payment_status =
                   (IF written = "COMPLETE" THEN "SUCCESS" ELSE "FAILED")
              /\ reqs'[r].resp.body.fare = Fare(q.distanceNum)
              /\ reqs'[r].resp.body.distance = q.distanceNum]_vars

\* a Complete of 10.5 km whose charge failed: answered FAILED, stored UNPAID with
\* the fare 17.75
C5_Witness ==
    \E r \in Reqs :
      /\ reqs[r].kind = "complete" /\ reqs[r].resp.code = 200
      /\ reqs[r].resp.body.payment_status = "FAILED"
      /\ reqs[r].resp.body.fare = Num(1775)
      /\ trips[reqs[r].trip_id].status = "UNPAID"
      /\ trips[reqs[r].trip_id].fare = Num(1775)
      /\ trips[reqs[r].trip_id].distance = Num(105)

AllowedTransitions ==
    { <<"REQUESTED", "ACCEPTED">>, <<"ACCEPTED", "COMPLETE">>, <<"ACCEPTED", "UNPAID">>,
      <<"REQUESTED", "CANCELLED">>, <<"ACCEPTED", "CANCELLED">> }

\* C6: every change of a stored trip's status is one of REQUESTED->ACCEPTED,
\* ACCEPTED->COMPLETE, ACCEPTED->UNPAID, REQUESTED->CANCELLED, ACCEPTED->CANCELLED
\* (so COMPLETE, UNPAID and CANCELLED never change again).
C6_StatusMonotonic ==
    [][\A t \in DOMAIN trips :
         trips'[t].status # trips[t].status =>
           <<trips[t].status, trips'[t].status>> \in AllowedTransitions]_vars

C8_FareDistanceWrittenOnce ==
    [][\A t \in DOMAIN trips' :
         /\ trips'[t].fare = NaN <=> trips'[t].distance = NaN
         /\ t \notin DOMAIN trips => trips'[t].fare = NaN
         /\ t \in DOMAIN trips =>
              /\ (trips'[t].fare # trips[t].fare \/ trips'[t].distance # trips[t].distance) =>
                    \E r \in Reqs : /\ reqs[r].kind = "complete" /\ reqs[r].pc = "update"
                                    /\ reqs[r].trip_id = t /\ reqs'[r].pc # "update"
              /\ trips[t].fare # NaN => trips'[t].fare = trips[t].fare
              /\ trips[t].distance # NaN => trips'[t].distance = trips[t].distance]_vars

\* request r, a Cancel, arrives in this step (its SELECT runs)
CancelArrives(r) == reqs[r].kind = "none" /\ reqs'[r].kind = "cancel"

\* request r, a Cancel, runs its UPDATE in this step
CancelWrites(r) ==
    reqs[r].kind = "cancel" /\ reqs[r].pc = "update" /\ reqs'[r].pc = "done"

\* C9: Cancel always yields CANCELLED.  When the UPDATE of a Cancel succeeds the
\* stored status of its trip is CANCELLED after the step, whatever it was before,
\* and the response is 200 with status CANCELLED; when it fails the store is left
\* alone and the response is 500.  A Cancel of a trip_id that names no trip writes
\* nothing and answers 404 (500 if its SELECT fails), and only a Cancel of an
\* existing trip goes on to an UPDATE.
C9_CancelYieldsCancelled ==
    [][\A r \in Reqs :
         /\ CancelWrites(r) =>
              IF reqs'[r].resp.code = 200
              THEN /\ trips'[reqs[r].trip_id].status = "CANCELLED"
                   /\ reqs'[r].resp.body.status = "CANCELLED"
                   /\ reqs'[r].resp.body.trip_id = reqs[r].trip_id
              ELSE reqs'[r].resp.code = 500 /\ trips' = trips
         /\ CancelArrives(r) =>
              /\ trips' = trips
              /\ IF reqs'[r].trip_id \in DOMAIN trips
                 THEN reqs'[r].pc = "update" \/ reqs'[r].resp.code = 500
                 ELSE reqs'[r].pc = "done" /\ reqs'[r].resp.code \in {404, 500}]_vars

\* a Cancel of a trip that had a driver (it was ACCEPTED) is answered 200 and the
\* trip is CANCELLED, and a Cancel of an unknown trip is answered 404
C9_Witness ==
    /\ \E r \in Reqs :
         /\ reqs[r].kind = "cancel" /\ reqs[r].resp.code = 200
         /\ trips[reqs[r].trip_id].status = "CANCELLED"
         /\ trips[reqs[r].trip_id].driver_id # NULL
    /\ \E r \in Reqs :
         /\ reqs[r].kind = "cancel" /\ reqs[r].resp.code = 404

PingsInFlight == { c \in net : c.svc = "ping" }

\* C10: sequential pinging.  At most one ping per trip is outstanding; the
\* outstanding ping of a Create is the ping of the candidate its loop is at, and
\* every ping sent before it has resolved as not accepted.
C10_SequentialPinging ==
    /\ \A c, d \in PingsInFlight : c.trip_id = d.trip_id => c = d
    /\ \A c \in PingsInFlight :
         LET q == reqs[c.req] IN
         /\ q.kind = "create" /\ q.pc = "ping"
         /\ c.trip_id = q.trip_id
         /\ c.driver_id = q.drivers[q.i]
         /\ Len(q.sentTo) = q.i
         /\ Len(q.results) = q.i - 1
         /\ \A j \in 1..(q.i - 1) : ~q.results[j]

\* two Creates negotiate at once, each with one ping outstanding, one of them at
\* its second candidate after the first did not accept
C10_Witness ==
    \E r, p \in CreateRequests :
      /\ r # p
      /\ reqs[r].pc = "ping" /\ reqs[p].pc = "ping"
      /\ reqs[r].i = 2 /\ reqs[r].results = <<FALSE>>
      /\ Cardinality(PingsInFlight) = 2

\* request r gets its response in this step
Answers(r) == reqs[r].resp = NoResp /\ reqs'[r].resp # NoResp

\* the step resolves an outbound call of request r (the call leaves the network)
ResolvesCall(r) == \E c \in net : c.req = r /\ c \notin net'

\* the error messages of a failed database statement
StoreErrors == { "insert failed", "select failed", "update failed" }

\* C11: downstream failures never fail a trip mutation.  A step that resolves a
\* call to the directory, a driver's ping, the payment service or the driver
\* status endpoint, whatever the reply, never answers anything but 201 (Create)
\* or 200 (Complete); and every response of a Create, a Complete or a Cancel that
\* is not 2xx is a 400 sent at arrival, a 404 for a trip_id that names no trip,
\* or a 500 carrying the error of a failed database statement.
C11_DownstreamNeverFails ==
    [][\A r \in Reqs :
         Answers(r) /\ reqs'[r].kind \in {"create", "complete", "cancel"} =>
           LET resp == reqs'[r].resp IN
           /\ ResolvesCall(r) =>
                resp.code = (IF reqs'[r].kind = "create" THEN 201 ELSE 200)
           /\ \/ resp.code \in {200, 201}
              \/ resp.code = 400 /\ reqs[r].kind = "none"
              \/ /\ resp.code = 404 /\ reqs[r].kind = "none"
                 /\ reqs'[r].trip_id \notin DOMAIN trips
              \/ /\ resp.code = 500 /\ resp.body.error \in StoreErrors
                 /\ trips' = trips /\ net' = net]_vars

\* a Create answered 201 although the directory fetch threw, and a Complete
\* answered 200 although the charge failed, on a trip that has a driver
C11_Witness ==
    /\ \E r \in CreateRequests :
         /\ reqs[r].response # NoReply /\ reqs[r].response.threw
         /\ reqs[r].resp.code = 201
    /\ \E r \in Reqs :
         /\ reqs[r].kind = "complete" /\ reqs[r].resp.code = 200
         /\ reqs[r].resp.body.payment_status = "FAILED"
         /\ trips[reqs[r].trip_id].driver_id # NULL

\* request r, a Create, arrives in this step
CreateArrives(r) == reqs[r].kind = "none" /\ reqs'[r].kind = "create"

\* request r, a Complete, arrives in this step (its SELECT runs, unless the
\* distance check answers first)
CompleteArrives(r) == reqs[r].kind = "none" /\ reqs'[r].kind = "complete"

\* request r has been rejected: a Create or a Complete answered 400 or 404
Rejected(r) ==
    reqs[r].kind \in {"create", "complete"} /\ reqs[r].resp.code \in {400, 404}

\* C12: rejected commands change nothing.  A Create that arrives with rider_id,
\* pickup or drop missing is answered 400 in that step; a Complete that arrives
\* without a distance is answered 400, and one with a distance whose trip_id
\* names no trip is answered 404 (its SELECT succeeding); the step of a rejection
\* leaves the store and the outbound calls as they were (no row inserted or
\* written, no directory, ping, charge or driver-status call sent), and a rejected
\* request never takes another step and never has a call outstanding.
C12_RejectedChangeNothing ==
    [][\A r \in Reqs :
         /\ CreateArrives(r) =>
              LET q == reqs'[r] IN
              (FalsyText(q.rider_id) \/ FalsyText(q.pickup) \/ FalsyText(q.drop))
                 => q.resp.code = 400
         /\ CompleteArrives(r) =>
              LET q == reqs'[r] IN
              /\ q.distance.kind = "absent" => q.resp.code = 400
              /\ (q.distance.kind # "absent" /\ q.trip_id \notin DOMAIN trips)
                   => q.resp.code \in {400, 404} \/ q.resp = ErrorResp(500, "select failed")
              /\ q.resp.code = 404 => q.trip_id \notin DOMAIN trips
         /\ (Answers(r) /\ reqs'[r].kind \in {"create", "complete"}
                        /\ reqs'[r].resp.code \in {400, 404}) =>
              /\ trips' = trips /\ net' = net /\ uuid' = uuid
              /\ reqs'[r].pc = "done"
         /\ Rejected(r) =>
              /\ reqs'[r] = reqs[r]
              /\ \A c \in net : c.req # r]_vars

\* a Create without a rider_id was answered 400 and a Complete without a distance
\* was answered 400, and the store is still empty
C12_Witness ==
    /\ trips = << >>
    /\ \E r \in CreateRequests : reqs[r].rider_id = "" /\ reqs[r].resp.code = 400
    /\ \E r \in Reqs : /\ reqs[r].kind = "complete" /\ reqs[r].resp.code = 400
                       /\ reqs[r].distance.kind = "absent"

\* 2.00 + 1.50 * d rounded to 2 decimals, in cents, for d = n tenths of a kilometre
FareFormula(n) == Num(200 + 15 * n)

\* C13: fare formula.  Every Complete that supplies a number d >= 0 as distance,
\* d = 0 included, for a trip that exists is taken on to the charge (it is not
\* rejected), and the fare its UPDATE persists and the fare its 200 response
\* returns are 2.00 + 1.50 * d rounded to 2 decimals.
C13_FareFormula ==
    [][\A r \in Reqs :
         /\ CompleteArrives(r) =>
              LET q == reqs'[r] IN
              (q.distance.kind = "number" /\ q.distance.n >= 0
                 /\ q.trip_id \in DOMAIN trips /\ q.resp # ErrorResp(500, "select failed"))
                => q.pc = "pay" /\ q.fare = FareFormula(q.distance.n)
         /\ (CompleteWrites(r) /\ reqs[r].distance.kind = "number") =>
              trips'[reqs[r].trip_id].fare = FareFormula(reqs[r].distance.n)
         /\ (CompleteAnswers(r) /\ reqs[r].distance.kind = "number") =>
              reqs'[r].resp.body.fare = FareFormula(reqs[r].distance.n)]_vars

\* request r, a Create, takes a step
CreateSteps(r) == reqs'[r].kind = "create" /\ reqs'[r] # reqs[r]

\* C14: Create never stores a finished trip.  A step of a Create changes the
\* store in two ways only: it inserts the row of its own trip with status
\* REQUESTED, or it rewrites the row of its own trip with status ACCEPTED; it
\* never leaves COMPLETE, UNPAID or CANCELLED in a row it wrote.  After any step,
\* the trip of a Create that no Complete and no Cancel has written is stored
\* REQUESTED or ACCEPTED.
C14_CreateNeverFinishes ==
    [][/\ \A r \in Reqs :
            CreateSteps(r) =>
              \A t \in DOMAIN trips' :
                IF t \notin DOMAIN trips
                THEN t = reqs'[r].trip_id /\ trips'[t].status = "REQUESTED"
                ELSE trips'[t] # trips[t] =>
                       t = reqs[r].trip_id /\ trips'[t].status = "ACCEPTED"
       /\ \A r \in Reqs :
            (/\ reqs[r].kind = "create"
             /\ reqs[r].trip_id \in DOMAIN trips'
             /\ Untouched(reqs[r].trip_id)') =>
               trips'[reqs[r].trip_id].status \in {"REQUESTED", "ACCEPTED"}]_vars

\* two Creates are done and no other command ran: the trip of one is stored
\* ACCEPTED (its assignment UPDATE ran), the trip of the other REQUESTED
C14_Witness ==
    \E r, p \in CreateRequests :
      /\ reqs[r].update = "ok" /\ trips[reqs[r].trip_id].status = "ACCEPTED"
      /\ reqs[p].pc = "done" /\ reqs[p].resp.code = 201 /\ reqs[p].update = "none"
      /\ trips[reqs[p].trip_id].status = "REQUESTED"

\* request r, a Get, arrives in this step (its SELECT runs and it is answered)
GetArrives(r) == reqs[r].kind = "none" /\ reqs'[r].kind = "get"

GetRequests == { r \in Reqs : reqs[r].kind = "get" }

\* C15: Get is a read-only projection.  The step of a Get changes no stored
\* trip (and sends no call); its answer is 200 with exactly the ten stored fields
\* of the trip as they are at that moment, 404 when the trip_id names no trip
\* (500 when its SELECT fails); and it equals the 200 answer of every earlier Get
\* for the same trip_id whose row the store still holds unchanged.
C15_GetReadOnly ==
    [][\A r \in Reqs :
         GetArrives(r) =>
           LET q == reqs'[r]
               t == q.trip_id IN
           /\ trips' = trips /\ net' = net
           /\ q.pc = "done"
           /\ \/ q.resp = ErrorResp(500, "select failed")
              \/ /\ t \notin DOMAIN trips
                 /\ q.resp = ErrorResp(404, "Trip not found")
              \/ /\ t \in DOMAIN trips
                 /\ q.resp.code = 200
                 /\ q.resp.body = trips[t]
           /\ \A p \in GetRequests :
                (/\ reqs[p].trip_id = t /\ reqs[p].resp.code = 200
                 /\ q.resp.code = 200
                 /\ trips[t] = reqs[p].resp.body) => q.resp = reqs[p].resp]_vars

\* two Gets for the same trip, a trip with a driver, were answered 200 with the
\* same body, the stored row
C15_Witness ==
    \E r, p \in GetRequests :
      /\ r # p /\ reqs[r].trip_id = reqs[p].trip_id
      /\ reqs[r].resp.code = 200 /\ reqs[p].resp = reqs[r].resp
      /\ reqs[r].resp.body = trips[reqs[r].trip_id]
      /\ trips[reqs[r].trip_id].driver_id # NULL

\* request r, a Create, has its assignment UPDATE run in this step, successfully
AssignWrites(r) ==
    reqs[r].kind = "create" /\ reqs[r].update = "queued" /\ reqs'[r].update = "ok"

\* C16: commands on one trip are not serialized and their writes detect no
\* conflict.  Whatever the stored row holds when it runs, whoever wrote it last,
\* a successful UPDATE takes effect in full: Create's stores ACCEPTED with its
\* driver, Complete's stores the status of its own charge with its fare and
\* distance, Cancel's stores CANCELLED; and no command is answered with a
\* conflict (the answers are 200, 201, 400, 404 and 500 only).  The interleaving
\* itself is C16_Witness.
C16_UnserializedWrites ==
    [][\A r \in Reqs :
         LET q == reqs[r]
             t == q.trip_id IN
         /\ AssignWrites(r) =>
              /\ trips'[t].status = "ACCEPTED"
              /\ trips'[t].driver_id = q.assignedDriverId
         /\ CompleteWrites(r) =>
              /\ trips'[t].status = q.status
              /\ trips'[t].fare = q.fare
              /\ trips'[t].distance = q.distanceNum
         /\ (CancelWrites(r) /\ reqs'[r].resp.code = 200) =>
              trips'[t].status = "CANCELLED"
         /\ reqs'[r].resp.code \in {0, 200, 201, 400, 404, 500}]_vars

\* a Complete arrived first and read the trip; while it was in flight a Cancel
\* arrived, read the trip and wrote CANCELLED; then the Complete's UPDATE wrote
\* COMPLETE over it, and both were answered 200
C16_Witness ==
    /\ reqs[1].kind = "complete" /\ reqs[2].kind = "cancel"
    /\ reqs[1].trip_id = reqs[2].trip_id
    /\ reqs[2].resp = CancelResp(reqs[2].trip_id)
    /\ reqs[1].resp.code = 200 /\ reqs[1].resp.body.status = "COMPLETE"
    /\ trips[reqs[1].trip_id].status = "COMPLETE"

\* request r, a Create, has the ping it awaits resolve in this step
PingResolves(r) ==
    /\ reqs[r].kind = "create" /\ reqs[r].pc = "ping"
    /\ Call(r, "ping", reqs[r].drivers[reqs[r].i], reqs[r].trip_id) \in net \ net'

\* the one reply of a driver that counts as an acceptance
DriverAccepted(o) == o = [threw |-> FALSE, status |-> 200, accepted |-> "true"]

\* C17: ping is fail-safe.  When a ping resolves, it counts as accepted exactly
\* when the reply is HTTP 200 with accepted true; any other reply (accepted false
\* or missing, a status other than 200, a network error or timeout) counts as not
\* accepted and is never answered as an error: if a candidate is left the next
\* one is pinged in the same step, and after the last one the Create is answered
\* 201 "no drivers accepted".
C17_PingFailSafe ==
    [][\A r \in Reqs :
         PingResolves(r) =>
           LET q == reqs[r]
               n == reqs'[r]
               accepted == DriverAccepted(n.pingResponse) IN
           /\ n.pingResponse \in PingOutcomes
           /\ n.results = Append(q.results, accepted)
           /\ n.resp.code \in {0, 201}
           /\ accepted => n.assignedDriverId = q.drivers[q.i]
           /\ ~accepted =>
                /\ n.assignedDriverId = NULL
                /\ IF q.i < Len(q.drivers)
                   THEN /\ n.pc = "ping" /\ n.i = q.i + 1 /\ n.resp = NoResp
                        /\ Call(r, "ping", q.drivers[q.i + 1], q.trip_id) \in net'
                   ELSE n.resp = UnassignedResp(q.trip_id,
                                    "Trip created but no drivers accepted")]_vars

\* the ping of the first candidate failed (network error or timeout), nothing
\* was answered, and the second candidate is being pinged
C17_Witness ==
    \E r \in CreateRequests :
      /\ reqs[r].pc = "ping" /\ reqs[r].i = 2 /\ reqs[r].results = <<FALSE>>
      /\ reqs[r].pingResponse # NoReply /\ reqs[r].pingResponse.threw
      /\ reqs[r].resp = NoResp
      /\ Call(r, "ping", reqs[r].drivers[2], reqs[r].trip_id) \in net

CompleteRequests == { r \in Reqs : reqs[r].kind = "complete" }

\* the calls of request r to service svc that are outstanding in network n
CallsOf(n, r, svc) == { c \in n : c.req = r /\ c.svc = svc }

\* C18: order of steps in Complete.  A Complete that passes the distance check
\* and finds its trip sends one charge, at that moment, with an idempotency key
\* drawn for it then; no later step sends a charge (the charge is not retried:
\* when it resolves, whatever the reply, the call is gone and the UPDATE is
\* queued); the UPDATE runs only after the charge has resolved; the driver-status
\* call is sent only in the step in which that UPDATE succeeds and only when the
\* driver_id read with the trip at the start is not null, to that driver; and
\* the 200 response is sent in the step in which the driver-status call resolves
\* or throws, or with the UPDATE when no driver was read.
C18_CompleteOrder ==
    [][\A r \in Reqs :
         LET q == reqs[r]
             n == reqs'[r] IN
         /\ CompleteArrives(r) =>
              IF n.resp = NoResp
              THEN /\ n.pc = "pay"
                   /\ CallsOf(net', r, "charge") = { Call(r, "charge", NULL, n.trip_id) }
                   /\ n.idempotencyKey = uuid' /\ uuid' > uuid
                   /\ \A p \in CompleteRequests : reqs[p].idempotencyKey # n.idempotencyKey
                   /\ n.idempotencyKey \notin DOMAIN trips
                   /\ n.driver_id = trips[n.trip_id].driver_id
                   /\ trips' = trips
              ELSE CallsOf(net', r, "charge") = {} /\ uuid' = uuid
         /\ ~CompleteArrives(r) =>
              CallsOf(net', r, "charge") \subseteq CallsOf(net, r, "charge")
         /\ (q.kind = "complete" /\ q.pc = "pay" /\ n # q) =>
              /\ n.pc = "update" /\ n.response \in PaymentOutcomes
              /\ CallsOf(net', r, "charge") = {}
              /\ trips' = trips /\ n.resp = NoResp
         /\ CompleteWrites(r) =>
              /\ q.response \in PaymentOutcomes
              /\ CallsOf(net, r, "charge") = {}
         /\ CallsOf(net', r, "status") # CallsOf(net, r, "status") =>
              \/ /\ CompleteWrites(r) /\ q.driver_id # NULL
                 /\ CallsOf(net, r, "status") = {}
                 /\ CallsOf(net', r, "status") =
                      { Call(r, "status", q.driver_id, q.trip_id) }
                 /\ n.resp = NoResp
              \/ /\ q.kind = "complete" /\ q.pc = "reactivate"
                 /\ CallsOf(net', r, "status") = {}
                 /\ n.resp.code = 200
         /\ (CompleteWrites(r) /\ q.driver_id = NULL) =>
              n.resp.code = 200 /\ CallsOf(net', r, "status") = {}
         /\ CompleteAnswers(r) =>
              \/ q.pc = "reactivate" /\ CallsOf(net, r, "status") # {}
              \/ q.pc = "update" /\ q.driver_id = NULL]_vars

\* a Complete whose charge threw has written UNPAID with its fare and awaits the
\* driver-status call for the driver it read, its response not yet sent
C18_Witness ==
    \E r \in CompleteRequests :
      LET q == reqs[r] IN
      /\ q.pc = "reactivate" /\ q.resp = NoResp
      /\ q.response \in PaymentOutcomes /\ q.response.threw
      /\ CallsOf(net, r, "charge") = {}
      /\ CallsOf(net, r, "status") = { Call(r, "status", q.driver_id, q.trip_id) }
      /\ q.driver_id # NULL
      /\ trips[q.trip_id].status = "UNPAID" /\ trips[q.trip_id].fare = q.fare

\* C19: order of steps in Create.  The directory fetch is sent only in the step
\* in which the INSERT has stored the trip's row, with status REQUESTED, no
\* driver, no fare and no distance; a ping is outstanding only for a trip whose
\* row is stored; when the INSERT fails the Create is answered 500 in that step,
\* nothing is stored and no call of it is ever sent; from the fetch to the end of
\* the ping loop no step of the Create changes the store; and the only other
\* store change a Create makes is its assignment UPDATE, which runs at most once
\* and only after the last ping it sent was accepted.
C19_CreateOrder ==
    [][\A r \in Reqs :
         LET q == reqs[r]
             n == reqs'[r]
             t == q.trip_id IN
         /\ CallsOf(net', r, "available") \ net # {} =>
              /\ q.kind = "create" /\ q.pc = "insert"
              /\ t \notin DOMAIN trips /\ t \in DOMAIN trips'
              /\ trips'[t].status = "REQUESTED" /\ trips'[t].driver_id = NULL
              /\ trips'[t].fare = NaN /\ trips'[t].distance = NaN
              /\ trips'[t].rider_id = q.rider_id
              /\ trips'[t].pickup_location = q.pickup
              /\ trips'[t].drop_location = q.drop
              /\ CallsOf(net', r, "ping") = {}
         /\ \A c \in CallsOf(net', r, "ping") :
              /\ n.kind = "create" /\ n.response # NoReply
              /\ c.trip_id \in DOMAIN trips'
         /\ (q.kind = "create" /\ q.pc = "insert" /\ n # q /\ t \notin DOMAIN trips') =>
              /\ n.pc = "done" /\ n.resp = ErrorResp(500, "insert failed")
              /\ trips' = trips /\ net' = net
         /\ (q.kind = "create" /\ q.resp.code = 500) =>
              /\ n = q /\ CallsOf(net, r, "available") \cup CallsOf(net, r, "ping") = {}
              /\ q.response = NoReply /\ q.sentTo = <<>> /\ q.update = "none"
         /\ (q.kind = "create" /\ q.pc \in {"fetch", "ping"} /\ n # q) =>
              trips' = trips
         /\ (CreateSteps(r) /\ trips' # trips /\ q.kind = "create" /\ q.pc # "insert") =>
              /\ AssignWrites(r)
              /\ q.results # <<>> /\ q.results[Len(q.results)]
              /\ Len(q.sentTo) = Len(q.results)
              /\ CallsOf(net, r, "ping") = {}
         /\ (q.kind = "create" /\ q.update \in {"ok", "err"}) => n = q]_vars

\* a Create whose INSERT failed was answered 500 without a call, and another
\* Create, its row stored as inserted, has pinged its first candidate in vain
\* and is pinging the second
C19_Witness ==
    \E r, p \in CreateRequests :
      /\ reqs[r].resp = ErrorResp(500, "insert failed")
      /\ reqs[r].trip_id \notin DOMAIN trips
      /\ reqs[p].pc = "ping" /\ reqs[p].i = 2
      /\ RowAsInserted(p)
      /\ CallsOf(net, p, "ping") # {}

\* C20: immutable identity fields and single assignment.  No step removes a
\* stored trip or changes its trip_id, rider_id, pickup_location, drop_location
\* or created_at; its driver_id changes only from NULL to a driver, only in the
\* step in which the assignment UPDATE of the Create of that trip runs, to the
\* driver that Create's ping was accepted by (so at most once); and no step of a
\* Complete or a Cancel changes any trip's driver_id.
C20_IdentityAndSingleAssignment ==
    [][\A t \in DOMAIN trips :
         /\ t \in DOMAIN trips'
         /\ trips'[t].trip_id = trips[t].trip_id /\ trips[t].trip_id = t
         /\ trips'[t].rider_id = trips[t].rider_id
         /\ trips'[t].pickup_location = trips[t].pickup_location
         /\ trips'[t].drop_location = trips[t].drop_location
         /\ trips'[t].created_at = trips[t].created_at
         /\ trips'[t].driver_id # trips[t].driver_id =>
              /\ trips[t].driver_id = NULL /\ trips'[t].driver_id \in Drivers
              /\ \E r \in Reqs : /\ AssignWrites(r) /\ reqs[r].trip_id = t
                                 /\ trips'[t].driver_id = reqs[r].assignedDriverId
         /\ (\E r \in Reqs : reqs'[r].kind \in {"complete", "cancel"} /\ reqs'[r] # reqs[r])
              => trips'[t].driver_id = trips[t].driver_id]_vars

\* a Create's assignment UPDATE stored its driver, a Cancel of that trip was
\* answered 200 after it, and the CANCELLED row still names that driver
C20_Witness ==
    \E r \in CreateRequests, p \in Reqs :
      /\ reqs[r].update = "ok" /\ reqs[r].assignedDriverId # NULL
      /\ reqs[p].kind = "cancel" /\ reqs[p].trip_id = reqs[r].trip_id
      /\ reqs[p].resp.code = 200
      /\ trips[reqs[r].trip_id].status = "CANCELLED"
      /\ trips[reqs[r].trip_id].driver_id = reqs[r].assignedDriverId
      /\ trips[reqs[r].trip_id].rider_id = reqs[r].rider_id
      /\ trips[reqs[r].trip_id].created_at = reqs[r].now

\* the message of each 201 outcome of Create
CreateMessages ==
    { "Trip created and driver assigned", "Trip created but no drivers accepted",
      "Trip created but no drivers available",
      "Trip created but could not reach driver service" }

\* the message Create answers with, from what its negotiation came to
CreateOutcome(q) ==
    IF q.response.threw THEN "Trip created but could not reach driver service"
    ELSE IF NoCandidates(q.response) THEN "Trip created but no drivers available"
    ELSE IF q.results[Len(q.results)] THEN "Trip created and driver assigned"
    ELSE "Trip created but no drivers accepted"

\* C21: Create's response reports REQUESTED in every 201 outcome.  The 201 a
\* Create is answered with carries its trip_id, status REQUESTED and the message
\* of its outcome (driver assigned, no drivers accepted, no drivers available,
\* could not reach driver service); in the assigned outcome it carries the
\* driver_id of the accepting driver as well and the assignment UPDATE is queued
\* in the same step, which, when it runs, stores status ACCEPTED with that
\* driver; in the other three outcomes the body has no driver_id field and no
\* UPDATE is queued.
C21_CreateReportsRequested ==
    [][\A r \in Reqs :
         LET q == reqs[r]
             n == reqs'[r] IN
         /\ (Answers(r) /\ n.kind = "create" /\ n.resp.code = 201) =>
              LET body == n.resp.body IN
              /\ body.trip_id = n.trip_id
              /\ body.status = "REQUESTED"
              /\ body.message \in CreateMessages
              /\ body.message = CreateOutcome(n)
              /\ IF body.message = "Trip created and driver assigned"
                 THEN /\ DOMAIN body = {"trip_id", "status", "driver_id", "message"}
                      /\ body.driver_id = q.drivers[q.i]
                      /\ body.driver_id = n.assignedDriverId
                      /\ n.update = "queued"
                 ELSE /\ DOMAIN body = {"trip_id", "status", "message"}
                      /\ n.assignedDriverId = NULL
                      /\ n.update = "none"
         /\ AssignWrites(r) =>
              /\ q.resp.code = 201 /\ q.resp.body.status = "REQUESTED"
              /\ trips'[q.trip_id].status = "ACCEPTED"
              /\ trips'[q.trip_id].driver_id = q.resp.body.driver_id]_vars

\* a Create was answered 201 with status REQUESTED and the driver's id, and the
\* row its assignment UPDATE wrote is stored ACCEPTED with that driver
C21_Witness ==
    \E r \in CreateRequests :
      /\ reqs[r].resp.code = 201
      /\ reqs[r].resp.body.message = "Trip created and driver assigned"
      /\ reqs[r].resp.body.status = "REQUESTED"
      /\ reqs[r].update = "ok"
      /\ trips[reqs[r].trip_id].status = "ACCEPTED"
      /\ trips[reqs[r].trip_id].driver_id = reqs[r].resp.body.driver_id

\* C22: every command runs to completion.  Under FairSpec (every database
\* statement runs and every outbound call resolves or throws), every Create,
\* Complete, Cancel and Get the server has received is eventually answered; an
\* answer, once sent, is never replaced by another; a request in flight is never
\* dropped or turned into another one; and a Create pings each candidate of its
\* list at most once, in list order, so that it is answered after at most as many
\* pings as the list has candidates.
C22_RunsToCompletion ==
    /\ [][\A r \in Reqs :
            /\ reqs[r].resp # NoResp => reqs'[r].resp = reqs[r].resp
            /\ reqs[r].kind # "none" =>
                 /\ reqs'[r].kind = reqs[r].kind
                 /\ reqs'[r].trip_id = reqs[r].trip_id
            /\ reqs'[r].kind = "create" =>
                 /\ Len(reqs'[r].sentTo) <= Len(reqs'[r].drivers)
                 /\ reqs'[r].sentTo = SubSeq(reqs'[r].drivers, 1, Len(reqs'[r].sentTo))
                 /\ \A a, b \in DOMAIN reqs'[r].sentTo :
                      a # b => reqs'[r].sentTo[a] # reqs'[r].sentTo[b]]_vars
    /\ \A r \in Reqs : (reqs[r].kind # "none") ~> (reqs[r].resp # NoResp)

\* a Create that pinged both candidates of its list in vain and a Complete whose
\* driver-status call was made have both been answered, and nothing is in flight
C22_Witness ==
    /\ \E r \in CreateRequests :
         /\ Len(reqs[r].drivers) = 2 /\ reqs[r].sentTo = reqs[r].drivers
         /\ reqs[r].results = <<FALSE, FALSE>>
         /\ reqs[r].resp.code = 201
    /\ \E r \in CompleteRequests :
         /\ reqs[r].resp.code = 200
         /\ trips[reqs[r].trip_id].driver_id # NULL
    /\ net = {}

\* request r, a Cancel, takes a step
CancelSteps(r) == reqs'[r].kind = "cancel" /\ reqs'[r] # reqs[r]

\* C23: Cancel's frame.  A step of a Cancel sends no call (none to the driver
\* directory, a driver or the payment service: the driver is not reactivated),
\* inserts and removes no trip, leaves every trip but the addressed one as it
\* was, and changes nothing of the addressed trip but its status and its
\* updated_at; no outstanding call ever belongs to a Cancel.
C23_CancelFrame ==
    [][\A r \in Reqs :
         /\ CancelSteps(r) =>
              LET t == reqs'[r].trip_id IN
              /\ net' = net
              /\ uuid' = uuid
              /\ DOMAIN trips' = DOMAIN trips
              /\ \A u \in DOMAIN trips :
                   IF u = t
                   THEN trips'[u] = [trips[u] EXCEPT !.status = trips'[u].status,
                                                     !.updated_at = trips'[u].updated_at]
                   ELSE trips'[u] = trips[u]
         /\ reqs'[r].kind = "cancel" => CallsOf(net', r, "status") = {}
         /\ \A c \in net' : reqs'[c.req].kind # "cancel"]_vars

\* a trip that had a driver, a fare and a distance was cancelled: the Cancel was
\* answered 200, the row is CANCELLED and still holds all three, and no call is
\* outstanding
C23_Witness ==
    \E r \in Reqs :
      /\ reqs[r].kind = "cancel" /\ reqs[r].resp.code = 200
      /\ trips[reqs[r].trip_id].status = "CANCELLED"
      /\ trips[reqs[r].trip_id].driver_id # NULL
      /\ trips[reqs[r].trip_id].fare # NaN
      /\ trips[reqs[r].trip_id].distance # NaN
      /\ net = {}

====
